---- MODULE Spec2Model ----
(***************************************************************************)
(* Model of graph_score.py: the ScoreManager page store, the ScoreGUI      *)
(* callbacks that drive it, and the interactive loop of main() with its    *)
(* sliding-window scan.  Indices are 0-based as in the source; TLA+        *)
(* sequences are 1-based, so page i of the store is scores[i + 1].         *)
(***************************************************************************)
EXTENDS Integers, Sequences, FiniteSets, TLC

(* ------------------------------ bounds --------------------------------- *)

\* Largest number of pages the model lets the operator add.
MaxPages == 2

\* Width of the working canvas every page is resized to.  The source uses
\* 1424 (cv2.resize(image, (1424, 848))); the model scans a narrower canvas
\* so that a whole scan is a handful of steps.
ImageWidth == 63

\* Largest page duration, in seconds, tried on the full-size canvas.
MaxDuration == 60

(* ------------------------- program constants --------------------------- *)

scan_width == 60

\* Width every raster is resized to: cv2.resize(image, (1424, 848)).
canvas_width == 1424

(* ------------------------------ inputs --------------------------------- *)

\* File names the file dialog can return.  "missing.png" stands for a file
\* cv2.imread cannot decode (it returns None for it).
Paths == {"a.png", "b.png", "missing.png"}

\* Values the duration entry can hold (seconds); "30" is its default.
Durations == {0, 30}

\* Keys cv2.waitKey can report; "none" is the timeout (no key pressed).
Keys == {"a", "b", "n", "p", "r", "f", "ESC", "none"}

Readable(path) == path # "missing.png"

\* Width in pixels of the raster cv2.imread decodes from each file: one
\* file is wider than the working canvas, one is narrower than the scan
\* window.
RawWidth(path) ==
    IF path = "a.png" THEN 100
    ELSE IF path = "b.png" THEN 59
    ELSE 0

(* -------------------------- feature extractor -------------------------- *)

\* Keypoints SIFT finds on each decodable raster: x position and size.
Keypoints(img) ==
    IF img = "a.png"
    THEN {[x |-> 0, size |-> 2], [x |-> 30, size |-> 4], [x |-> 62, size |-> 6]}
    ELSE IF img = "b.png"
    THEN {[x |-> 61, size |-> 3]}
    ELSE {}

RECURSIVE SumSizes(_)
SumSizes(kps) ==
    IF kps = {} THEN 0
    ELSE LET kp == CHOOSE k \in kps : TRUE
         IN kp.size + SumSizes(kps \ {kp})

\* analyze_image on the columns [x0, x1) of raster img.  avg_size is the
\* mean of the sizes, kept exact as the pair <<sum, count>>.
analyze_image(img, x0, x1) ==
    LET kps   == {kp \in Keypoints(img) : x0 <= kp.x /\ kp.x < x1}
        sizes == {kp.size : kp \in kps}
    IN [object_count |-> Cardinality(kps),
        min_size |-> IF kps = {} THEN 0
                     ELSE CHOOSE s \in sizes : \A t \in sizes : s <= t,
        avg_size |-> IF kps = {} THEN <<0, 1>>
                     ELSE <<SumSizes(kps), Cardinality(kps)>>,
        max_size |-> IF kps = {} THEN 0
                     ELSE CHOOSE s \in sizes : \A t \in sizes : s >= t]

\* The analysis_data dictionary built for the full raster of a page.
analysis_data(path) ==
    [keypoints_image |-> path,
     original_image  |-> path,
     object_count    |-> analyze_image(path, 0, ImageWidth).object_count]

(* ------------------------------- state --------------------------------- *)

VARIABLES
    scores,           \* ScoreManager.scores: sequence of (path, duration)
    current_index,    \* ScoreManager.current_index
    analyzed_pages,   \* ScoreManager.analyzed_pages: index -> analysis_data
    call,             \* the last ScoreGUI / ScoreManager call and its arguments
    pc,               \* "shell", "idle" (main's key loop), "scan", "crashed"
    auto_play,        \* main's auto_play parameter
    duration,         \* main's duration parameter
    image,            \* main's image: the raster that is scanned
    keypoints_image,  \* main's keypoints_image: the raster that is displayed
    object_count,     \* main's object_count
    current_page,     \* main's current_page
    total_pages,      \* main's total_pages
    total_duration,   \* main's total_duration
    reverse_scan,     \* main's reverse_scan
    current_position, \* main's current_position
    delay,            \* int(step_duration * 1000) of the scan started last
    key,              \* the last value read from cv2.waitKey ("none" in the shell)
    start_x,          \* start_x of the last scan step run in this session
    sent              \* OSC messages sent by the last step, in call order

store  == <<scores, current_index, analyzed_pages>>
locals == <<auto_play, duration, image, keypoints_image, object_count,
            current_page, total_pages, total_duration, reverse_scan,
            current_position, delay>>
vars   == <<scores, current_index, analyzed_pages, call, pc, auto_play,
            duration, image, keypoints_image, object_count, current_page,
            total_pages, total_duration, reverse_scan, current_position,
            delay, key, start_x, sent>>

(* ----------------------------- ScoreManager ---------------------------- *)

NoPage == [path |-> "", duration |-> 0]

add_score(s, path, d) == Append(s, [path |-> path, duration |-> d])

\* list.pop(index); a negative index counts from the end of the list.
pop(s, index) ==
    LET i == IF index < 0 THEN index + Len(s) ELSE index
    IN [j \in 1..(Len(s) - 1) |-> IF j <= i THEN s[j] ELSE s[j + 1]]

\* Mutant: the guard forgets the lower end, so that a negative index
\* reaches list.pop.
index_in_range_no_lower(s, index) == index < Len(s)

\* remove_score's guard: 0 <= index < len(self.scores).
index_in_range(s, index) == 0 <= index /\ index < Len(s)

\* The page list after remove_score(index).
remove_score_scores(s, index) ==
    IF index_in_range(s, index) THEN pop(s, index) ELSE s

\* Mutant: the entries after the removed one are re-keyed one down.
remove_score_cache_reindexed(s, cache, index) ==
    IF index_in_range(s, index)
    THEN [k \in {j \in DOMAIN cache : j < index}
                \cup {j - 1 : j \in {i \in DOMAIN cache : i > index}} |->
            IF k < index /\ k \in DOMAIN cache THEN cache[k] ELSE cache[k + 1]]
    ELSE cache

\* The cache after remove_score(index): del self.analyzed_pages[index] when
\* the index is cached; no other key is touched.
remove_score_cache(s, cache, index) ==
    IF index_in_range(s, index) /\ index \in DOMAIN cache
    THEN [k \in DOMAIN cache \ {index} |-> cache[k]]
    ELSE cache

\* get_current_score raises IndexError when the store is non-empty and
\* current_index is past its end.
get_current_score_raises(s, idx) == s # <<>> /\ idx >= Len(s)

get_current_score(s, idx) == IF s = <<>> THEN NoPage ELSE s[idx + 1]

\* Mutant: the sum leaves out the first page.
RECURSIVE get_total_duration_skips_first(_)
get_total_duration_skips_first(s) ==
    IF Len(s) <= 1 THEN 0
    ELSE get_total_duration_skips_first(SubSeq(s, 1, Len(s) - 1))
         + s[Len(s)].duration

\* get_total_duration: sum(duration for _, duration in self.scores), added
\* up from the first page to the last.
RECURSIVE get_total_duration(_)
get_total_duration(s) ==
    IF s = <<>> THEN 0
    ELSE get_total_duration(SubSeq(s, 1, Len(s) - 1)) + s[Len(s)].duration

store_analysis(cache, index, data) ==
    [k \in DOMAIN cache \cup {index} |->
        IF k = index THEN data ELSE cache[k]]

\* Mutant: the test is cyclic, true on the last page as well.
has_next_score_cyclic(s, idx) == Len(s) > 1

has_next_score(s, idx) == Len(s) > 1 /\ idx < Len(s) - 1

\* Mutant: the cursor stops at the last page instead of wrapping.
next_index_clamped(s, idx) == IF idx + 1 < Len(s) THEN idx + 1 ELSE idx

next_index(s, idx) == (idx + 1) % Len(s)

previous_index(s, idx) == (idx - 1) % Len(s)

\* Mutant: on an empty store the cursor is put back to 0.
next_score_index_resets(s, idx) ==
    IF s # <<>> THEN next_index(s, idx) ELSE 0

\* current_index after next_score: moved only when the store is not empty.
next_score_index(s, idx) ==
    IF s # <<>> THEN next_index(s, idx) ELSE idx

\* current_index after previous_score.
previous_score_index(s, idx) ==
    IF s # <<>> THEN previous_index(s, idx) ELSE idx

\* What next_score and previous_score return once the cursor is at idx:
\* get_current_score(), or (None, None) on an empty store.
navigation_result(s, idx) ==
    IF s # <<>> THEN get_current_score(s, idx) ELSE NoPage

\* analyze_all_pages: pages are analysed in order; cv2.resize raises on the
\* first page whose image cannot be read, after the pages before it were
\* stored.
FirstUnreadable(s) ==
    IF \E i \in 1..Len(s) : ~Readable(s[i].path)
    THEN (CHOOSE i \in 1..Len(s) :
            /\ ~Readable(s[i].path)
            /\ \A j \in 1..(i - 1) : Readable(s[j].path)) - 1
    ELSE Len(s)

\* Mutant: a page whose index already has an entry is not analysed again.
analyze_all_pages_keeps_entries(s, cache) ==
    LET n == FirstUnreadable(s)
    IN [k \in DOMAIN cache \cup 0..(n - 1) |->
          IF k \in DOMAIN cache THEN cache[k]
          ELSE analysis_data(s[k + 1].path)]

analyze_all_pages(s, cache) ==
    LET n == FirstUnreadable(s)
    IN [k \in DOMAIN cache \cup 0..(n - 1) |->
          IF k < n THEN analysis_data(s[k + 1].path) ELSE cache[k]]

analyze_all_pages_raises(s) == FirstUnreadable(s) < Len(s)

(* ------------------------------- main() -------------------------------- *)

\* Mutant: the raster keeps the width of its file.
resize_keeps_width(w) == w

\* Width of cv2.resize(image, (1424, 848)) for a raster of width w.
resize(w) == ImageWidth

\* image.shape[1] of the working raster made from file img; every raster
\* main holds, loaded or taken from the cache, has been resized.
shape1(img) == resize(RawWidth(img))

\* num_steps = (image.shape[1] - scan_width) + 1, for the current raster.
num_steps == (shape1(image) - scan_width) + 1

\* int(x / y) for y > 0: Python's int() truncates toward zero.
TruncDiv(x, y) == IF x >= 0 THEN x \div y ELSE -((-x) \div y)

\* The delay handed to cv2.waitKey in the scan loop, in milliseconds.
step_delay(d) == TruncDiv(d * 1000, num_steps)

\* The same delay on the full-size canvas, where num_steps is
\* (1424 - 60) + 1 = 1365.
canvas_step_delay(d) ==
    TruncDiv(d * 1000, (canvas_width - scan_width) + 1)

\* Mutant: a scan always starts at the left edge.
scan_start_at_left(rs) == 0

\* Where a scan starts: current_position = 0 if not reverse_scan else
\* num_steps - 1.
scan_start(rs) == IF ~rs THEN 0 ELSE num_steps - 1

\* Mutant: the upper end of the loop test is off by one.
in_scan_range_off_by_one(pos) == 0 <= pos /\ pos <= num_steps

\* The inner loop's test on the offset: 0 <= current_position < num_steps.
in_scan_range(pos) == 0 <= pos /\ pos < num_steps

\* The direction after key k was read in the scan loop.
scan_direction(k, rs) ==
    IF k = "r" THEN TRUE ELSE IF k = "f" THEN FALSE ELSE rs

\* Mutant: the step moves the wrong way round.
next_position_swapped(rs, pos) == IF rs THEN pos + 1 ELSE pos - 1

\* The offset after a step: one to the left in reverse, one to the right
\* otherwise.
next_position(rs, pos) == IF rs THEN pos - 1 ELSE pos + 1

\* Mutant: the cancel flag is not consulted after the inner loop.
advance_page_ignores_cancel(scanning, s, idx) == has_next_score(s, idx)

\* The test after the inner loop: move to the next page only when the scan
\* was not cancelled and the store has a next page.
advance_page(scanning, s, idx) == scanning /\ has_next_score(s, idx)

\* main's locals do not exist outside a session.
NoLocals ==
    /\ auto_play' = FALSE
    /\ duration' = 0
    /\ image' = ""
    /\ keypoints_image' = ""
    /\ object_count' = 0
    /\ current_page' = 0
    /\ total_pages' = 0
    /\ total_duration' = 0
    /\ delay' = 0
    /\ reverse_scan' = FALSE
    /\ current_position' = 0

\* Mutant: main never finds an entry and analyses the page on every entry.
has_analysis_never(cache, idx) == FALSE

\* score_manager.get_analysis(idx) returns an entry, not None.
has_analysis(cache, idx) == idx \in DOMAIN cache

\* Mutant: the direction flag survives the re-entry of main.
main_keeps_direction(image_path, d, ap, s, idx, cache) ==
    IF ~Readable(image_path)
    THEN /\ pc' = "shell"
         /\ analyzed_pages' = cache
         /\ NoLocals
    ELSE LET existing == idx \in DOMAIN cache
         IN /\ pc' = "idle"
            /\ auto_play' = ap
            /\ duration' = d
            /\ reverse_scan' = reverse_scan
            /\ current_position' = 0
            /\ current_page' = idx
            /\ total_pages' = Len(s)
            /\ total_duration' = get_total_duration(s)
            /\ delay' = 0
            /\ image' = IF existing THEN cache[idx].original_image
                        ELSE image_path
            /\ keypoints_image' = IF existing THEN cache[idx].keypoints_image
                                  ELSE image_path
            /\ object_count' = IF existing THEN cache[idx].object_count
                               ELSE analysis_data(image_path).object_count
            /\ analyzed_pages' = IF existing THEN cache
                                 ELSE store_analysis(cache, idx,
                                                     analysis_data(image_path))

\* Entry of main(image_path, d, score_manager, ap) up to its key loop, with
\* the store as the caller left it (s, idx, cache).  An unreadable image
\* makes main return at once, and with it every enclosing main, back to
\* ScoreGUI.analyze_scores.
main(image_path, d, ap, s, idx, cache) ==
    IF ~Readable(image_path)
    THEN /\ pc' = "shell"
         /\ analyzed_pages' = cache
         /\ NoLocals
    ELSE LET existing == has_analysis(cache, idx)
         IN /\ pc' = "idle"
            /\ auto_play' = ap
            /\ duration' = d
            /\ reverse_scan' = FALSE
            /\ current_position' = 0
            /\ current_page' = idx
            /\ total_pages' = Len(s)
            /\ total_duration' = get_total_duration(s)
            /\ delay' = 0
            /\ image' = IF existing THEN cache[idx].original_image
                        ELSE image_path
            /\ keypoints_image' = IF existing THEN cache[idx].keypoints_image
                                  ELSE image_path
            /\ object_count' = IF existing THEN cache[idx].object_count
                               ELSE analysis_data(image_path).object_count
            /\ analyzed_pages' = IF existing THEN cache
                                 ELSE store_analysis(cache, idx,
                                                     analysis_data(image_path))

Init ==
    /\ scores = <<>>
    /\ current_index = 0
    /\ analyzed_pages = <<>>
    /\ call = [name |-> "init", path |-> "", duration |-> 0, index |-> 0,
               result |-> NoPage]
    /\ pc = "shell"
    /\ auto_play = FALSE
    /\ duration = 0
    /\ image = ""
    /\ keypoints_image = ""
    /\ object_count = 0
    /\ current_page = 0
    /\ total_pages = 0
    /\ total_duration = 0
    /\ delay = 0
    /\ reverse_scan = FALSE
    /\ current_position = 0
    /\ key = "none"
    /\ start_x = 0
    /\ sent = <<>>

(* --------------------------- ScoreGUI callbacks ------------------------ *)

\* A call with its arguments; result is the page a query returned, NoPage
\* for a call that returns nothing or the (None, None) sentinel.
Call(name, path, d, index) ==
    [name |-> name, path |-> path, duration |-> d, index |-> index,
     result |-> NoPage]

\* ScoreGUI.add_score / confirm: the chosen file and the entered duration go
\* to ScoreManager.add_score.
AddScore(path, d) ==
    /\ pc = "shell"
    /\ Len(scores) < MaxPages
    /\ scores' = add_score(scores, path, d)
    /\ call' = Call("add_score", path, d, 0)
    /\ key' = "none"
    /\ start_x' = 0
    /\ sent' = <<>>
    /\ UNCHANGED <<current_index, analyzed_pages, pc, locals>>

\* ScoreManager.remove_score(index), as ScoreGUI.remove_score calls it.
RemoveScore(index) ==
    /\ pc = "shell"
    /\ scores' = remove_score_scores(scores, index)
    /\ analyzed_pages' = remove_score_cache(scores, analyzed_pages, index)
    /\ call' = Call("remove_score", "", 0, index)
    /\ key' = "none"
    /\ start_x' = 0
    /\ sent' = <<>>
    /\ UNCHANGED <<current_index, pc, locals>>

\* ScoreGUI.analyze_scores(ap), reached from start_analysis (ap = FALSE)
\* and start_auto_play (ap = TRUE) once the store is known to be non-empty.
analyze_scores(ap) ==
    IF get_current_score_raises(scores, current_index)
    THEN /\ pc' = "crashed"
         /\ UNCHANGED <<analyzed_pages, locals>>
    ELSE LET page == get_current_score(scores, current_index)
         IN IF page.path # "" /\ page.duration # 0
            THEN main(page.path, page.duration, ap,
                      scores, current_index, analyzed_pages)
            ELSE UNCHANGED <<pc, analyzed_pages, locals>>

StartAnalysis ==
    /\ pc = "shell"
    /\ call' = Call("start_analysis", "", 0, 0)
    /\ key' = "none"
    /\ start_x' = 0
    /\ sent' = <<>>
    /\ UNCHANGED <<scores, current_index>>
    /\ IF scores = <<>>
       THEN UNCHANGED <<pc, analyzed_pages, locals>>
       ELSE analyze_scores(FALSE)

StartAutoPlay ==
    /\ pc = "shell"
    /\ call' = Call("start_auto_play", "", 0, 0)
    /\ key' = "none"
    /\ start_x' = 0
    /\ sent' = <<>>
    /\ UNCHANGED <<scores, current_index>>
    /\ IF scores = <<>>
       THEN UNCHANGED <<pc, analyzed_pages, locals>>
       ELSE analyze_scores(TRUE)

(* --------------------------- main(): key loop -------------------------- *)

Msg(address, value) == [address |-> address, value |-> value]

\* 'a': analyse every page, reload the current page's entry, send its
\* object count.
KeyAnalyze ==
    /\ pc = "idle"
    /\ key' = "a"
    /\ UNCHANGED <<scores, current_index, call, start_x>>
    /\ analyzed_pages' = analyze_all_pages(scores, analyzed_pages)
    /\ IF analyze_all_pages_raises(scores)
       THEN /\ pc' = "crashed"
            /\ sent' = <<>>
            /\ UNCHANGED <<auto_play, duration, image, keypoints_image,
                           object_count, current_page, total_pages,
                           total_duration, reverse_scan, current_position,
                           delay>>
       ELSE LET cache == analyze_all_pages(scores, analyzed_pages)
                existing == current_page \in DOMAIN cache
            IN /\ pc' = "idle"
               /\ image' = IF existing THEN cache[current_page].original_image
                           ELSE image
               /\ keypoints_image' =
                     IF existing THEN cache[current_page].keypoints_image
                     ELSE keypoints_image
               /\ object_count' =
                     IF existing THEN cache[current_page].object_count
                     ELSE object_count
               /\ sent' = IF existing
                          THEN <<Msg("/image/object_count",
                                     cache[current_page].object_count)>>
                          ELSE <<>>
               /\ UNCHANGED <<auto_play, duration, current_page, total_pages,
                              total_duration, reverse_scan, current_position,
                           delay>>

\* 'n': next_score, then main is entered again for the page it returns.
KeyNext ==
    /\ pc = "idle"
    /\ call' = call
    /\ sent' = <<>>
    /\ scores' = scores
    /\ key' = "n"
    /\ start_x' = start_x
    /\ IF scores # <<>>
       THEN /\ current_index' = next_index(scores, current_index)
            /\ LET page == get_current_score(scores, current_index')
               IN main(page.path, page.duration, auto_play,
                       scores, current_index', analyzed_pages)
       ELSE UNCHANGED <<current_index, analyzed_pages, pc, locals>>

\* 'p': previous_score, then main is entered again.
KeyPrevious ==
    /\ pc = "idle"
    /\ call' = call
    /\ sent' = <<>>
    /\ scores' = scores
    /\ key' = "p"
    /\ start_x' = start_x
    /\ IF scores # <<>>
       THEN /\ current_index' = previous_index(scores, current_index)
            /\ LET page == get_current_score(scores, current_index')
               IN main(page.path, page.duration, auto_play,
                       scores, current_index', analyzed_pages)
       ELSE UNCHANGED <<current_index, analyzed_pages, pc, locals>>

\* 'b': the step count and step duration are computed (a zero step count
\* raises ZeroDivisionError), the scan is put at its first or last offset
\* and waits for the first step's key poll.  When that offset is outside
\* [0, num_steps) the inner loop is skipped and the page-advance test runs
\* at once.
KeyScan ==
    /\ pc = "idle"
    /\ key' = "b"
    /\ sent' = <<>>
    /\ UNCHANGED <<scores, call, start_x>>
    /\ IF num_steps = 0
       THEN /\ pc' = "crashed"
            /\ UNCHANGED <<current_index, analyzed_pages, locals>>
       ELSE IF in_scan_range(scan_start(reverse_scan))
       THEN /\ pc' = "scan"
            /\ current_position' = scan_start(reverse_scan)
            /\ delay' = step_delay(duration)
            /\ UNCHANGED <<current_index, analyzed_pages, auto_play,
                           duration, image, keypoints_image, object_count,
                           current_page, total_pages, total_duration,
                           reverse_scan>>
       ELSE IF advance_page(TRUE, scores, current_index)
       THEN /\ current_index' = next_index(scores, current_index)
            /\ LET page == get_current_score(scores, current_index')
               IN main(page.path, page.duration, auto_play,
                       scores, current_index', analyzed_pages)
       ELSE /\ pc' = "idle"
            /\ current_position' = scan_start(reverse_scan)
            /\ delay' = step_delay(duration)
            /\ UNCHANGED <<current_index, analyzed_pages, auto_play,
                           duration, image, keypoints_image, object_count,
                           current_page, total_pages, total_duration,
                           reverse_scan>>

\* ESC in the key loop: main returns to ScoreGUI.analyze_scores.
KeyExit ==
    /\ pc = "idle"
    /\ key' = "ESC"
    /\ pc' = "shell"
    /\ start_x' = 0
    /\ NoLocals
    /\ sent' = <<>>
    /\ UNCHANGED <<store, call>>

\* Any other key, or the 1 ms poll timing out: the frame is redrawn.
KeyOther(k) ==
    /\ pc = "idle"
    /\ k \in {"r", "f", "none"}
    /\ key' = k
    /\ sent' = <<>>
    /\ UNCHANGED <<store, call, pc, locals, start_x>>

(* --------------------------- main(): scan loop ------------------------- *)

\* Mutant: the average is sent before the minimum.
scan_messages_reordered(img, x) ==
    LET a == analyze_image(img, x, x + scan_width)
    IN <<Msg("/image/scan_object_count", a.object_count),
         Msg("/image/scan_avg_size", a.avg_size),
         Msg("/image/scan_min_size", a.min_size),
         Msg("/image/scan_max_size", a.max_size)>>

\* The four messages of one scan step, for the window starting at x.
scan_messages(img, x) ==
    LET a == analyze_image(img, x, x + scan_width)
    IN <<Msg("/image/scan_object_count", a.object_count),
         Msg("/image/scan_min_size", a.min_size),
         Msg("/image/scan_avg_size", a.avg_size),
         Msg("/image/scan_max_size", a.max_size)>>

\* One pass of the inner scan loop with key k read by cv2.waitKey, followed
\* by whatever the loop exit does when this was the scan's last step.  The
\* timeout is only possible for a positive delay: cv2.waitKey blocks until a
\* key is pressed when the delay is zero or negative.
ScanStep(k) ==
    /\ pc = "scan"
    /\ k = "none" => step_delay(duration) > 0
    /\ key' = k
    /\ UNCHANGED <<scores, call>>
    /\ LET scanning == k # "ESC"
           rs == IF scanning THEN scan_direction(k, reverse_scan)
                 ELSE reverse_scan
           np == IF scanning THEN next_position(rs, current_position)
                 ELSE current_position
       IN /\ sent' = IF scanning THEN scan_messages(image, current_position)
                     ELSE <<>>
          /\ start_x' = IF scanning THEN current_position ELSE start_x
          /\ IF scanning /\ in_scan_range(np)
             THEN /\ pc' = "scan"
                  /\ reverse_scan' = rs
                  /\ current_position' = np
                  /\ UNCHANGED <<current_index, analyzed_pages, auto_play,
                                 duration, image, keypoints_image,
                                 object_count, current_page, total_pages,
                                 total_duration, delay>>
             ELSE IF advance_page(scanning, scores, current_index)
             THEN /\ current_index' = next_index(scores, current_index)
                  /\ LET page == get_current_score(scores, current_index')
                     IN main(page.path, page.duration, auto_play,
                             scores, current_index', analyzed_pages)
             ELSE /\ pc' = "idle"
                  /\ reverse_scan' = rs
                  /\ current_position' = np
                  /\ UNCHANGED <<current_index, analyzed_pages, auto_play,
                                 duration, image, keypoints_image,
                                 object_count, current_page, total_pages,
                                 total_duration, delay>>

(* ------------------- ScoreManager called on its own -------------------- *)

IndexError == [path |-> "IndexError", duration |-> 0]

\* score_manager.next_score() outside a session.
ApiNextScore ==
    /\ pc = "shell"
    /\ current_index' = next_score_index(scores, current_index)
    /\ call' = [Call("next_score", "", 0, 0) EXCEPT
                   !.result = navigation_result(scores, current_index')]
    /\ key' = "none"
    /\ start_x' = 0
    /\ sent' = <<>>
    /\ UNCHANGED <<scores, analyzed_pages, pc, locals>>

\* score_manager.previous_score() outside a session.
ApiPreviousScore ==
    /\ pc = "shell"
    /\ current_index' = previous_score_index(scores, current_index)
    /\ call' = [Call("previous_score", "", 0, 0) EXCEPT
                   !.result = navigation_result(scores, current_index')]
    /\ key' = "none"
    /\ start_x' = 0
    /\ sent' = <<>>
    /\ UNCHANGED <<scores, analyzed_pages, pc, locals>>

\* score_manager.get_current_score() outside a session.
ApiGetCurrentScore ==
    /\ pc = "shell"
    /\ call' = [Call("get_current_score", "", 0, 0) EXCEPT
                   !.result =
                      IF get_current_score_raises(scores, current_index)
                      THEN IndexError
                      ELSE get_current_score(scores, current_index)]
    /\ key' = "none"
    /\ start_x' = 0
    /\ sent' = <<>>
    /\ UNCHANGED <<store, pc, locals>>

(* ------------------ client.send_message raising ----------------------- *)

\* 'a' when the send of line 481 raises: analyze_all_pages has run and the
\* current page's entry has been reloaded; nothing catches the exception,
\* which leaves main and the Tk callback.
KeyAnalyzeSendFails ==
    /\ pc = "idle"
    /\ ~analyze_all_pages_raises(scores)
    /\ LET cache == analyze_all_pages(scores, analyzed_pages)
       IN /\ current_page \in DOMAIN cache
          /\ analyzed_pages' = cache
          /\ image' = cache[current_page].original_image
          /\ keypoints_image' = cache[current_page].keypoints_image
          /\ object_count' = cache[current_page].object_count
    /\ key' = "a"
    /\ sent' = <<>>
    /\ pc' = "crashed"
    /\ UNCHANGED <<scores, current_index, call, start_x, auto_play, duration,
                   current_page, total_pages, total_duration, reverse_scan,
                   current_position, delay>>

\* A scan step in which the send after the first j messages raises (lines
\* 558-561): the key has been handled and the window extracted, the
\* position is not updated, the exception leaves main.
ScanStepSendFails(k, j) ==
    /\ pc = "scan"
    /\ k # "ESC"
    /\ k = "none" => step_delay(duration) > 0
    /\ j \in 0..3
    /\ key' = k
    /\ reverse_scan' = scan_direction(k, reverse_scan)
    /\ start_x' = current_position
    /\ sent' = SubSeq(scan_messages(image, current_position), 1, j)
    /\ pc' = "crashed"
    /\ UNCHANGED <<store, call, auto_play, duration, image, keypoints_image,
                   object_count, current_page, total_pages, total_duration,
                   current_position, delay>>

(* ---------------------------- specification ---------------------------- *)

Next ==
    \/ \E path \in Paths, d \in Durations : AddScore(path, d)
    \/ \E index \in -1..MaxPages : RemoveScore(index)
    \/ StartAnalysis
    \/ StartAutoPlay
    \/ KeyAnalyze
    \/ KeyNext
    \/ KeyPrevious
    \/ KeyScan
    \/ KeyExit
    \/ \E k \in Keys : KeyOther(k)
    \/ \E k \in Keys \ {"a", "b", "n", "p"} : ScanStep(k)

Spec == Init /\ [][Next]_vars

\* The program together with direct calls of the ScoreManager's navigation
\* methods between sessions.
ApiNext ==
    \/ Next
    \/ ApiNextScore
    \/ ApiPreviousScore
    \/ ApiGetCurrentScore

ApiSpec == Init /\ [][ApiNext]_vars

\* The program with an OSC client whose send_message may raise.
EmitterNext ==
    \/ Next
    \/ KeyAnalyzeSendFails
    \/ \E k \in Keys, j \in 0..3 : ScanStepSendFails(k, j)

EmitterSpec == Init /\ [][EmitterNext]_vars

\* The program when the operator presses no key while a scan runs: in the
\* scan loop cv2.waitKey only ever returns by its timeout.
UnattendedNext ==
    \/ \E path \in Paths, d \in Durations : AddScore(path, d)
    \/ \E index \in -1..MaxPages : RemoveScore(index)
    \/ StartAnalysis
    \/ StartAutoPlay
    \/ KeyAnalyze
    \/ KeyNext
    \/ KeyPrevious
    \/ KeyScan
    \/ KeyExit
    \/ \E k \in Keys : KeyOther(k)
    \/ ScanStep("none")

\* A waitKey with a positive delay returns when the delay has passed, so a
\* scan step that can time out is eventually taken.
UnattendedSpec ==
    Init /\ [][UnattendedNext]_vars /\ WF_vars(ScanStep("none"))

(* ------------------- step delay on the full-size canvas ---------------- *)

\* main in its key loop on a page of any duration the dialog can pass on.
DelayInit ==
    /\ scores = <<>>
    /\ current_index = 0
    /\ analyzed_pages = <<>>
    /\ call = Call("init", "", 0, 0)
    /\ pc = "idle"
    /\ auto_play = FALSE
    /\ duration \in 0..MaxDuration
    /\ image = ""
    /\ keypoints_image = ""
    /\ object_count = 0
    /\ current_page = 0
    /\ total_pages = 0
    /\ total_duration = 0
    /\ reverse_scan = FALSE
    /\ current_position = 0
    /\ delay = 0
    /\ key = "none"
    /\ start_x = 0
    /\ sent = <<>>

\* 'b' on the 1424-wide canvas: step_duration = duration / num_steps, kept
\* as the integer number of milliseconds handed to cv2.waitKey.
StepDuration ==
    /\ pc = "idle"
    /\ pc' = "scan"
    /\ key' = "b"
    /\ delay' = canvas_step_delay(duration)
    /\ UNCHANGED <<store, call, auto_play, duration, image, keypoints_image,
                   object_count, current_page, total_pages, total_duration,
                   reverse_scan, current_position, start_x, sent>>

\* cv2.waitKey(delay) returning k: a key the operator pressed, or "none"
\* when the delay ran out, which needs a positive delay.
WaitKey(k) ==
    /\ pc = "scan"
    /\ k = "none" => delay > 0
    /\ key' = k
    /\ UNCHANGED <<store, call, pc, locals, start_x, sent>>

DelayNext ==
    \/ StepDuration
    \/ \E k \in Keys : WaitKey(k)

DelaySpec == DelayInit /\ [][DelayNext]_vars

(* ------------------------------- claims -------------------------------- *)

IsScanMessage(m) ==
    m.address \in {"/image/scan_object_count", "/image/scan_min_size",
                   "/image/scan_avg_size", "/image/scan_max_size"}

\* The last step was a scan step that extracted a window and sent its
\* statistics.
ScanStepRan == sent # <<>> /\ IsScanMessage(sent[1])

\* Every stored page has a readable image and a positive duration.
AllPagesPlayable ==
    \A i \in 1..Len(scores) :
        Readable(scores[i].path) /\ scores[i].duration > 0

\* C1: whenever the store is non-empty the current index is a valid index,
\* 0 <= current_index < number of pages, so that get_current_score returns
\* a stored page (checked on stores of readable pages with positive
\* durations, where no other failure is in play).
C1_CurrentIndexValid ==
    (AllPagesPlayable /\ scores # <<>>) =>
        0 <= current_index /\ current_index < Len(scores)

\* C2: every cached analysis keyed by index k belongs to the page stored at
\* index k: k is below the store length and the cached raster is that
\* page's image.
C2_CacheBelongsToPage ==
    AllPagesPlayable =>
        \A k \in DOMAIN analyzed_pages :
            /\ k < Len(scores)
            /\ analyzed_pages[k].original_image = scores[k + 1].path

\* C3: the step count is ImageWidth - scan_width + 1; the scan loop only
\* waits at offsets in [0, num_steps), and every window that was extracted
\* started at such an offset and ended inside the page, whatever 'r' and
\* 'f' keys were read between the steps.
C3_ScanOffsetInRange ==
    /\ num_steps = ImageWidth - scan_width + 1
    /\ pc = "scan" =>
          0 <= current_position /\ current_position < num_steps
    /\ ScanStepRan =>
          /\ 0 <= start_x
          /\ start_x <= ImageWidth - scan_width
          /\ start_x + scan_width <= ImageWidth

\* C3 witness: 'r' was read at the last offset, the window there was
\* extracted and the scan goes on to the left.
C3_Witness ==
    /\ pc = "scan"
    /\ key = "r"
    /\ ScanStepRan
    /\ start_x = num_steps - 1
    /\ current_position = num_steps - 2

\* The step taken from a scanning state processed offset current_position
\* with key' and left the range [0, num_steps) without a cancel.
ScanRanOut ==
    /\ pc = "scan"
    /\ key' # "ESC"
    /\ LET rs == IF key' = "r" THEN TRUE
                 ELSE IF key' = "f" THEN FALSE ELSE reverse_scan
           np == IF rs THEN current_position - 1 ELSE current_position + 1
       IN np < 0 \/ np >= ImageWidth - scan_width + 1

\* A next page exists (the non-cyclic test) and every page of the store,
\* the next one included, can be read and has a positive duration.
NextPageReadable ==
    /\ AllPagesPlayable
    /\ Len(scores) > 1
    /\ current_index < Len(scores) - 1
    /\ Readable(scores[current_index + 2].path)

\* C4: when a scan runs out of [0, num_steps) without a cancel, then with a
\* next page the current index advances and a fresh scan of that page is
\* running with no further command, and without a next page the engine is
\* idle on the same page.
C4_ScanEndAdvancesAndRescans ==
    [][ScanRanOut =>
          IF Len(scores) > 1 /\ current_index < Len(scores) - 1
          THEN NextPageReadable =>
                   /\ current_index' = current_index + 1
                   /\ pc' = "scan"
                   /\ current_position' \in {0, ImageWidth - scan_width}
          ELSE /\ pc' = "idle"
               /\ current_index' = current_index
               /\ current_page' = current_page]_vars

\* C5: a step that reads 'r' while scanning forward at offset k still
\* extracts the window at k, and the scan goes on at k - 1 unless k - 1 is
\* outside the range; reading 'f' while scanning in reverse at k goes on
\* at k + 1 in the same way.
C5_ToggleKeepsOffset ==
    [][/\ (pc = "scan" /\ key' = "r" /\ ~reverse_scan) =>
             /\ start_x' = current_position
             /\ ScanStepRan'
             /\ IF pc' = "scan"
                THEN current_position' = current_position - 1 /\ reverse_scan'
                ELSE current_position - 1 < 0
       /\ (pc = "scan" /\ key' = "f" /\ reverse_scan) =>
             /\ start_x' = current_position
             /\ ScanStepRan'
             /\ IF pc' = "scan"
                THEN current_position' = current_position + 1 /\ ~reverse_scan'
                ELSE current_position + 1 > ImageWidth - scan_width]_vars

\* C5 witness: 'r' was read in the middle of the page, the window at
\* offset 2 was extracted and the scan stands at offset 1.
C5_Witness ==
    /\ pc = "scan"
    /\ key = "r"
    /\ reverse_scan
    /\ ScanStepRan
    /\ start_x = 2
    /\ current_position = 1

\* C6: ESC read at a scan step puts the engine in the key loop at once: the
\* step sends nothing, the page list, current index, current page and
\* cache are unchanged and the session is still running; no step taken
\* from the key loop sends a scan statistic.
C6_CancelGoesIdle ==
    [][/\ (pc = "scan" /\ key' = "ESC") =>
             /\ pc' = "idle"
             /\ sent' = <<>>
             /\ scores' = scores
             /\ current_index' = current_index
             /\ current_page' = current_page
             /\ analyzed_pages' = analyzed_pages
             /\ image' = image
       /\ pc = "idle" => \A i \in 1..Len(sent') : ~IsScanMessage(sent'[i])]_vars

\* C6 witness: a scan of the first of two pages was cancelled in the middle
\* of the page while a next page existed.
C6_Witness ==
    /\ pc = "idle"
    /\ key = "ESC"
    /\ Len(scores) > 1
    /\ current_index < Len(scores) - 1
    /\ current_position = 1
    /\ start_x = 0
    /\ current_index \in DOMAIN analyzed_pages

\* The step entered a page: 'n' or 'p' read in the key loop, or a scan that
\* ran out with a next page, and main reached its key loop for that page.
PageEntered ==
    /\ pc' = "idle"
    /\ \/ pc = "idle" /\ key' \in {"n", "p"}
       \/ ScanRanOut /\ Len(scores) > 1 /\ current_index < Len(scores) - 1

\* The direction in force when the step began to leave the page: the flag
\* as the key read by that step left it.
DirectionBefore ==
    IF pc = "scan" /\ key' = "r" THEN TRUE
    ELSE IF pc = "scan" /\ key' = "f" THEN FALSE
    ELSE reverse_scan

\* C7 as stated: on every page transition the direction flag and the
\* auto-play flag in force before it are in force on the page entered.
C7_FlagsCarriedOver ==
    [][PageEntered =>
          /\ reverse_scan' = DirectionBefore
          /\ auto_play' = auto_play]_vars

\* C7 amended: on every page transition the auto-play flag is carried to
\* the page entered and the direction flag is forward again there, whatever
\* it was before.
C7_AutoPlayCarriedDirectionReset ==
    [][PageEntered =>
          /\ reverse_scan' = FALSE
          /\ current_position' = 0
          /\ auto_play' = auto_play]_vars

\* C7 witness: in an auto-play session a scan step read 'r', ran out of the
\* page, and the next page was entered with the direction forward.
C7_Witness ==
    /\ pc = "idle"
    /\ key = "r"
    /\ ScanStepRan
    /\ auto_play
    /\ current_index = 1
    /\ current_page = 1
    /\ ~reverse_scan

\* C8: add_score with a duration <= 0 stores nothing: the page list and the
\* cache are as before the call.
C8_NonPositiveDurationRejected ==
    [][(call'.name = "add_score" /\ call'.duration <= 0) =>
          /\ scores' = scores
          /\ analyzed_pages' = analyzed_pages]_vars

\* The pages of s without the one at 0-based position i, in order.
Without(s, i) ==
    SubSeq(s, 1, i) \o SubSeq(s, i + 2, Len(s))

\* C9: remove_score(i) with 0 <= i < length shortens the store by one,
\* drops the page at position i and keeps the others in order, and drops
\* exactly the cache key i: every other key keeps its entry under the same
\* key.
C9_RemoveEvictsOnlyThatKey ==
    [][(call'.name = "remove_score"
          /\ 0 <= call'.index /\ call'.index < Len(scores)) =>
          /\ Len(scores') = Len(scores) - 1
          /\ scores' = Without(scores, call'.index)
          /\ DOMAIN analyzed_pages' = DOMAIN analyzed_pages \ {call'.index}
          /\ \A k \in DOMAIN analyzed_pages' :
                analyzed_pages'[k] = analyzed_pages[k]
          /\ current_index' = current_index]_vars

\* C9 witness: page 0 of a fully analysed two-page store was removed; the
\* entry of the other page is still under key 1.
C9_Witness ==
    /\ call.name = "remove_score"
    /\ call.index = 0
    /\ Len(scores) = 1
    /\ DOMAIN analyzed_pages = {1}
    /\ analyzed_pages[1].original_image = scores[1].path

\* C10: remove_score(index) with index < 0 or index >= length changes
\* neither the page list nor the current index nor any cache entry.
C10_RemoveOutOfRangeNoOp ==
    [][(call'.name = "remove_score"
          /\ (call'.index < 0 \/ call'.index >= Len(scores))) =>
          /\ scores' = scores
          /\ current_index' = current_index
          /\ analyzed_pages' = analyzed_pages]_vars

\* C10 witness: remove_score(-1) was called on a two-page store with both
\* pages cached, and both pages and both entries are still there.
C10_Witness ==
    /\ call.name = "remove_score"
    /\ call.index = -1
    /\ Len(scores) = 2
    /\ DOMAIN analyzed_pages = {0, 1}

\* C11: has_next_score is true exactly when the store holds more than one
\* page and the current index is before the last one.  Seen where main
\* consults it, at the end of a scan: the index goes one up exactly in that
\* case; on the last page it stays, and store and cache are untouched,
\* although 'n' on the last page wraps the index to 0.
C11_HasNextNotCyclic ==
    [][/\ ScanRanOut =>
             IF Len(scores) > 1 /\ current_index # Len(scores) - 1
             THEN current_index' = current_index + 1
             ELSE /\ current_index' = current_index
                  /\ scores' = scores
                  /\ analyzed_pages' = analyzed_pages
                  /\ pc' = "idle"
       /\ (pc = "idle" /\ key' = "n" /\ current_index = Len(scores) - 1) =>
             current_index' = 0]_vars

\* C11 witness: a scan of the last of two pages ran out to the right and
\* the engine is idle on that same page.
C11_Witness ==
    /\ pc = "idle"
    /\ ScanStepRan
    /\ Len(scores) = 2
    /\ current_index = 1
    /\ current_page = 1
    /\ start_x = ImageWidth - scan_width
    /\ current_position = start_x + 1

\* The index after n calls of next_score from index idx.
RECURSIVE NextTimes(_, _, _)
NextTimes(s, idx, n) ==
    IF n = 0 THEN idx ELSE NextTimes(s, next_index(s, idx), n - 1)

\* C12: navigation is cyclic.  In a session (non-empty store, valid index)
\* 'n' moves the index one up and from the last page to 0, 'p' moves it one
\* down and from 0 to the last page, and as many next_score calls as there
\* are pages lead back to the index they started from.
C12_NavigationCyclic ==
    [][/\ pc = "idle" => NextTimes(scores, current_index, Len(scores))
                            = current_index
       /\ (pc = "idle" /\ key' = "n") =>
             current_index' = IF current_index = Len(scores) - 1 THEN 0
                              ELSE current_index + 1
       /\ (pc = "idle" /\ key' = "p") =>
             current_index' = IF current_index = 0 THEN Len(scores) - 1
                              ELSE current_index - 1]_vars

\* C12 witness: 'n' on the last page of a store of several pages led to
\* page 0, whose session is running.
C12_Witness ==
    /\ pc = "idle"
    /\ key = "n"
    /\ Len(scores) > 1
    /\ current_index = 0
    /\ current_page = 0

\* The sum of the durations of the pages at the positions in set I.
RECURSIVE DurationOver(_, _)
DurationOver(s, I) ==
    IF I = {} THEN 0
    ELSE LET i == CHOOSE j \in I : TRUE
         IN s[i].duration + DurationOver(s, I \ {i})

\* C13: add_score with a duration d > 0 raises get_total_duration by
\* exactly d, remove_score of a stored page lowers it by that page's
\* duration, and the total a session shows is the sum of the durations of
\* the pages stored.
C13_TotalDurationIsSum ==
    [][/\ (call'.name = "add_score" /\ call'.duration > 0) =>
             get_total_duration(scores')
                = get_total_duration(scores) + call'.duration
       /\ (call'.name = "remove_score"
             /\ 0 <= call'.index /\ call'.index < Len(scores)) =>
             get_total_duration(scores')
                = get_total_duration(scores) - scores[call'.index + 1].duration
       /\ get_total_duration(scores') = DurationOver(scores', DOMAIN scores')
       /\ pc' \in {"idle", "scan"} =>
             total_duration' = DurationOver(scores', DOMAIN scores')]_vars

\* C13 witness: a second page with a positive duration was added to a page
\* with a positive duration, and the total is the sum of the two.
C13_Witness ==
    /\ call.name = "add_score"
    /\ call.duration > 0
    /\ Len(scores) = 2
    /\ scores[1].duration > 0
    /\ get_total_duration(scores) = scores[1].duration + scores[2].duration

\* C14: every scan step that is not cancelled sends exactly four messages,
\* object count, minimum, average and maximum size in this order, each the
\* statistic of the one window [current_position, current_position + 60)
\* of the scanned raster; a step taken from the key loop sends no scan
\* statistic.
C14_FourMessagesPerStep ==
    [][/\ (pc = "scan" /\ key' # "ESC") =>
             LET x == current_position
                 w == analyze_image(image, x, x + scan_width)
             IN /\ Len(sent') = 4
                /\ sent'[1] = [address |-> "/image/scan_object_count",
                               value |-> w.object_count]
                /\ sent'[2] = [address |-> "/image/scan_min_size",
                               value |-> w.min_size]
                /\ sent'[3] = [address |-> "/image/scan_avg_size",
                               value |-> w.avg_size]
                /\ sent'[4] = [address |-> "/image/scan_max_size",
                               value |-> w.max_size]
                /\ start_x' = x
       /\ pc # "scan" =>
             \A i \in 1..Len(sent') : ~IsScanMessage(sent'[i])]_vars

\* C14 witness: a step at offset 2 of a.png sent the statistics of the
\* window [2, 62), which holds one keypoint of size 4.
C14_Witness ==
    /\ pc = "scan"
    /\ start_x = 2
    /\ image = "a.png"
    /\ Len(sent) = 4
    /\ sent[1].value = 1
    /\ sent[2].value = 4
    /\ sent[4].value = 4

\* C15: on an empty store get_current_score, next_score and previous_score
\* return the no-page sentinel and leave the current index as it is, and
\* Start Analysis and Start Auto Play do not enter main's loop.
C15_EmptyStoreIsNoOp ==
    [][/\ (scores = <<>> /\ call'.name \in {"get_current_score",
                                           "next_score",
                                           "previous_score"}) =>
             /\ call'.result = [path |-> "", duration |-> 0]
             /\ current_index' = current_index
             /\ scores' = <<>>
             /\ pc' = "shell"
       /\ (scores = <<>> /\ call'.name \in {"start_analysis",
                                           "start_auto_play"}) =>
             /\ pc' = "shell"
             /\ current_index' = current_index
             /\ scores' = <<>>
             /\ analyzed_pages' = analyzed_pages]_vars

\* C15 witness: next_score was called on a store that was emptied while
\* the cursor stood at 1; it returned the sentinel and the cursor is
\* still 1.
C15_Witness ==
    /\ call.name = "next_score"
    /\ scores = <<>>
    /\ call.result = NoPage
    /\ current_index = 1
    /\ pc = "shell"

\* C16: loading a page's image never crashes the session: whether the load
\* happens at session entry, on 'n' or 'p', at the automatic advance or in
\* the analyze-all action, a step taken with the current index in range
\* ends in the loop or in the shell, also when an image is unreadable.
C16_LoadFailureNeverCrashes ==
    [][~get_current_score_raises(scores, current_index) =>
          pc' \in {"shell", "idle", "scan"}]_vars

\* C17: a send_message that raises is swallowed: on a store of readable
\* pages with positive durations every step of the key loop and of the scan
\* loop, also one whose send fails, ends in the loop or in the shell.
C17_SendFailureSwallowed ==
    [][(pc \in {"idle", "scan"} /\ AllPagesPlayable) =>
          pc' \in {"shell", "idle", "scan"}]_vars

\* C18 as stated: 'b' never fails on a zero step count, and on a page whose
\* file is narrower than the scan window the scan is refused (the loop stays
\* idle, nothing is sent) or has a single step.
C18_NarrowRasterRefusedOrSingleStep ==
    [][(pc = "idle" /\ key' = "b") =>
          /\ pc' # "crashed"
          /\ RawWidth(image) < scan_width =>
                \/ pc' = "idle" /\ current_index' = current_index
                \/ num_steps = 1]_vars

\* C18, amended: 'b' never divides by a zero or negative step count because
\* every raster has been resized to the working canvas: whatever the width
\* of the page's file, the step count is canvas width - window width + 1,
\* which is positive, and the scan starts with that many steps ahead; it is
\* neither refused nor reduced to one step.
C18_ResizedCanvasStepCount ==
    [][(pc = "idle" /\ key' = "b") =>
          /\ num_steps = (ImageWidth - scan_width) + 1
          /\ num_steps > 1
          /\ pc' = "scan"
          /\ current_position' \in {0, num_steps - 1}
          /\ image' = image]_vars

\* C18 witness: a scan was started on a page whose file is narrower than
\* the scan window and has gone past its first step.
C18_Witness ==
    /\ pc = "scan"
    /\ RawWidth(image) < scan_width
    /\ RawWidth(image) > 0
    /\ current_position = 1
    /\ start_x = 0
    /\ ScanStepRan

\* C19: when analyze_all_pages completes on a store of N pages, every index
\* 0..N-1 has a cache entry, and the entry's object count is the one the
\* feature extractor returns for the full raster of the page at that index,
\* whatever was cached under the index before.
C19_AnalyzeAllCachesEveryPage ==
    [][(pc = "idle" /\ key' = "a" /\ pc' = "idle") =>
          \A i \in 0..(Len(scores) - 1) :
              /\ i \in DOMAIN analyzed_pages'
              /\ analyzed_pages'[i].object_count =
                    analyze_image(scores[i + 1].path, 0,
                                  shape1(scores[i + 1].path)).object_count
              /\ analyzed_pages'[i].original_image = scores[i + 1].path]_vars

\* C19 witness: analyze-all has completed on a two-page store and both
\* entries hold their own page's count (1 for b.png, 3 for a.png).
C19_Witness ==
    /\ pc = "idle"
    /\ key = "a"
    /\ Len(scores) = 2
    /\ scores[1].path = "b.png"
    /\ scores[2].path = "a.png"
    /\ DOMAIN analyzed_pages = {0, 1}
    /\ analyzed_pages[0].object_count = 1
    /\ analyzed_pages[1].object_count = 3
    /\ sent # <<>>

\* C20: every 'a' command sends exactly one message, /image/object_count
\* with the object count of the current page, and no scan message; no
\* other command and no scan step sends /image/object_count.
C20_OneObjectCountPerAnalyze ==
    [][/\ (pc = "idle" /\ key' = "a") =>
             LET path == scores[current_index + 1].path
             IN sent' = <<[address |-> "/image/object_count",
                           value |-> analyze_image(path, 0,
                                                   shape1(path)).object_count]>>
       /\ ~(pc = "idle" /\ key' = "a") =>
             \A i \in 1..Len(sent') :
                 sent'[i].address # "/image/object_count"]_vars

\* C21: a scan that was started and is left alone eventually ends: the
\* engine leaves the scan loop for the key loop (or, when the page it
\* advances to cannot be loaded, for the shell).
C21_UnattendedScanEnds == (pc = "scan") ~> (pc \in {"idle", "shell"})

\* C22: for every positive page duration the delay handed to the key poll
\* of a scan step, int(1000 * duration / 1365), is at least 1 ms, so that
\* the poll times out by itself.
C22_StepDelayAtLeastOne ==
    (pc = "scan" /\ duration > 0) => delay >= 1

\* C23 as stated: every 'b' read in the key loop puts the offset at 0 when
\* the direction flag is forward and at num_steps - 1 when it is reverse,
\* and within a session the flag changes only in a step that reads 'r' or
\* 'f' in the scan loop.
C23_StartOffsetAndDirectionOnlyByKeys ==
    [][/\ (pc = "idle" /\ key' = "b") =>
             current_position' = IF reverse_scan THEN num_steps - 1 ELSE 0
       /\ (pc \in {"idle", "scan"} /\ pc' \in {"idle", "scan"}
              /\ reverse_scan' # reverse_scan) =>
             (pc = "scan" /\ key' \in {"r", "f"})]_vars

\* C23, amended: every 'b' read in the key loop starts a scan at offset 0
\* when the flag is forward and at num_steps - 1 when it is reverse,
\* whatever offset an earlier scan ended on, and leaves the flag alone; 'r'
\* and 'f' read in the key loop change nothing; the flag changes only by
\* 'r'/'f' read in the scan loop, or by being put back to forward when a
\* page is entered or the session ends.
C23_StartOffsetAndDirectionChanges ==
    [][/\ (pc = "idle" /\ key' = "b") =>
             /\ pc' = "scan"
             /\ current_position' = IF reverse_scan THEN num_steps - 1 ELSE 0
             /\ reverse_scan' = reverse_scan
       /\ (pc = "idle" /\ key' \in {"r", "f"}) =>
             /\ pc' = "idle"
             /\ reverse_scan' = reverse_scan
             /\ current_position' = current_position
       /\ (reverse_scan' # reverse_scan) =>
             \/ /\ pc = "scan"
                /\ key' \in {"r", "f"}
                /\ pc' \in {"scan", "idle"}
                /\ reverse_scan' = (key' = "r")
             \/ /\ reverse_scan' = FALSE
                /\ PageEntered \/ pc' = "shell"]_vars

\* C23 witness: a scan was started again in reverse on a page whose
\* earlier scan ended at the left edge (its last step was at offset 0), and
\* it stands at num_steps - 1.
C23_Witness ==
    /\ pc = "scan"
    /\ key = "b"
    /\ reverse_scan
    /\ current_position = num_steps - 1
    /\ start_x = 0
    /\ delay > 0

\* The step entered main for a page and reached its key loop: a session
\* start from the shell, 'n' or 'p', or the advance at the end of a scan.
MainEntered ==
    \/ PageEntered
    \/ /\ pc = "shell"
       /\ pc' = "idle"
       /\ call'.name \in {"start_analysis", "start_auto_play"}

\* C24: entering a page stores a full-raster analysis under the current
\* index only when the index has no entry, and leaves every existing entry
\* as it is; an existing entry is replaced only by the 'a' command; 'b' and
\* scan steps that stay on the page do not touch the cache.
C24_AnalysisStoredOnceOnEntry ==
    [][/\ MainEntered =>
             LET idx == current_index'
                 path == scores[idx + 1].path
             IN /\ DOMAIN analyzed_pages' = DOMAIN analyzed_pages \cup {idx}
                /\ \A k \in DOMAIN analyzed_pages :
                       analyzed_pages'[k] = analyzed_pages[k]
                /\ idx \notin DOMAIN analyzed_pages =>
                       /\ analyzed_pages'[idx].original_image = path
                       /\ analyzed_pages'[idx].object_count =
                             analyze_image(path, 0, shape1(path)).object_count
                /\ object_count' = analyzed_pages'[idx].object_count
       /\ (\E k \in DOMAIN analyzed_pages \cap DOMAIN analyzed_pages' :
               analyzed_pages'[k] # analyzed_pages[k]) =>
             (pc = "idle" /\ key' = "a")
       /\ ((pc = "idle" /\ key' = "b") \/ (pc = "scan" /\ ~MainEntered)) =>
             analyzed_pages' = analyzed_pages]_vars

\* C24 witness: 'n' entered page 2 while index 1 still held the entry of a
\* page removed earlier; the entry was kept and its count is shown.
C24_Witness ==
    /\ pc = "idle"
    /\ key = "n"
    /\ current_index = 1
    /\ Len(scores) = 2
    /\ 1 \in DOMAIN analyzed_pages
    /\ analyzed_pages[1].original_image # scores[2].path
    /\ object_count = analyzed_pages[1].object_count

====
